---------------------------- MODULE Spec2Model ----------------------------
(***************************************************************************)
(* Telemetry dashboard server (src/src/server.py): the in-memory store of  *)
(* the latest record of every device (latest_data), the arrival times      *)
(* (last_seen), the periodic connection sweep and the HTTP handlers that   *)
(* ingest, read and evict records.  Device simulator                       *)
(* (src/src/esp32_dashboard/esp32_simulator.py): the signal model of one   *)
(* ECU, the send loop of a device and the manager of a fleet of devices.   *)
(*                                                                         *)
(* Units.  Wall-clock time is counted in centiseconds, so that             *)
(* round(elapsed, 1) is a real conversion: last_seen_seconds is held in    *)
(* tenths of a second.  voltage and fuel_level are held in tenths (13.5 is *)
(* 135, 50.0 is 500).  The "timestamp" string, formatted to the second, is *)
(* held as the whole second of the clock.                                  *)
(*                                                                         *)
(* Each component has its own specification; the variables of the other    *)
(* components stay at their initial values in it.                          *)
(***************************************************************************)
EXTENDS Integers, FiniteSets, Sequences, TLC

VARIABLES
    latest_data,     \* server.py:12  device id -> record (field name -> value)
    last_seen,       \* server.py:15  device id -> arrival time
    shutdown_event,  \* server.py:21  the Event checked by the sweep
    timers,          \* the pending threading.Timer objects: their due times
    now,             \* time.time()
    resp,            \* what the handler that ran at this clock reading returned
    refreshed,       \* history: device id -> time of the last sweep or read that
                     \* wrote its derived fields since its last ingest
    vehicle_type,    \* esp32_simulator.py:68  self.vehicle_type of one ECU
    state,           \* esp32_simulator.py:78  self.state of that ECU
    ecu_data,        \* the ECUData generate_realistic_data returned last
    ticks,           \* number of samples generated so far
    pc,              \* thread -> the statement it executes next ("idle": none)
    frame,           \* thread -> the local variables of the handler it runs
    out,             \* request thread -> the response of its last handler
    key_order,       \* the keys of latest_data in insertion order
    served,          \* number of requests started so far
    devices,         \* esp32_simulator.py:339  SimulatorManager.devices: id -> driver
    manager_running, \* esp32_simulator.py:340  SimulatorManager.running
    drivers,         \* the ESP32Simulator objects constructed: running, thread and
                     \* the consecutive_failures of the thread's loop
    caller,          \* the main thread: the method it is in, and its locals
    history          \* history: per driver, whether stop() was called since its
                     \* start and the samples sent after that

serverVars == <<latest_data, last_seen, shutdown_event, timers, now, resp, refreshed>>

signalVars == <<vehicle_type, state, ecu_data, ticks>>

\* The threads of the server process with its handlers run statement by
\* statement.
threadVars == <<pc, frame, out, key_order, served>>

\* The fleet of simulated devices and the thread that manages it.
fleetVars == <<devices, manager_running, drivers, caller, history>>

vars == <<serverVars, signalVars, threadVars, fleetVars>>

\* What each specification leaves alone.
notServer == <<signalVars, threadVars, fleetVars>>

notSignal == <<serverVars, threadVars, fleetVars>>

notThreads == <<signalVars, fleetVars>>

notFleet == <<serverVars, signalVars, threadVars>>

(***************************************************************************)
(* Bounds of the exploration.                                              *)
(***************************************************************************)
\* Number of clock readings, 0.04 s apart, explored right after a coarse one.
MaxJitter == 1

DeviceIds == {"A", "B"}

\* The clock readings, in seconds, that are followed by jittered readings:
\* an arrival at 0 s is exactly at the 15 s timeout and at 4 x 15 s there, and
\* the jitter gives both sides of each.
CoarseSeconds == {15, 60}

\* The readings without jitter: the start, and a last one late enough for the
\* sweep to run again after 60 s.
PlainSeconds == {0, 75}

Seconds(n) == n * 100

Instants ==
    {Seconds(s) + 4 * j : s \in CoarseSeconds, j \in 0..MaxJitter}
    \cup {Seconds(s) : s \in PlainSeconds}

(***************************************************************************)
(* Program constants.                                                      *)
(***************************************************************************)
CONNECTION_TIMEOUT == 15

required_keys == <<"rpm", "speed", "temp_motor", "throttle_pos">>

RequiredSet == {required_keys[i] : i \in DOMAIN required_keys}

\* Mutant: the ingest fills in no default.
default_fields_m == [k \in {} |-> 0]

\* Ingest-time defaults (13.5, 0, 50.0).
default_fields == [voltage |-> 135, gear |-> 0, fuel_level |-> 500]

\* Read-time defaults (0.0, 0, 0.0).
read_defaults == [voltage |-> 0, gear |-> 0, fuel_level |-> 0]

\* Timer(1.0, ...)
TimerPeriod == Seconds(1)

(***************************************************************************)
(* Python dictionaries as functions.                                       *)
(***************************************************************************)
EmptyMap == [k \in {} |-> 0]

Put(f, k, v) == [x \in DOMAIN f \cup {k} |-> IF x = k THEN v ELSE f[x]]

Drop(f, K) == [x \in DOMAIN f \ K |-> f[x]]

\* dict.update-like: every key of g written over f.
Overlay(f, g) == [x \in DOMAIN f \cup DOMAIN g |-> IF x \in DOMAIN g THEN g[x] ELSE f[x]]

\* Fill the keys of d that f lacks.
FillMissing(f, d) == [x \in DOMAIN f \cup DOMAIN d |-> IF x \in DOMAIN f THEN f[x] ELSE d[x]]

(***************************************************************************)
(* round(x, 1) of a duration in centiseconds, in tenths of a second:       *)
(* nearest tenth, an exact tie going to the even tenth as Python 3 does.   *)
(***************************************************************************)
Round1(cs) ==
    LET q == cs \div 10
        r == cs % 10
    IN  IF r < 5 THEN q
        ELSE IF r > 5 THEN q + 1
        ELSE IF q % 2 = 0 THEN q ELSE q + 1


(***************************************************************************)
(* The requests explored.  A body is the JSON object without its           *)
(* device_id.  Body1 is the minimal payload; the others add optional       *)
(* fields, an unrecognized field, and fields named like the ones the       *)
(* server derives.                                                         *)
(***************************************************************************)
Body1 == [rpm |-> 2500, speed |-> 60, temp_motor |-> 90, throttle_pos |-> 40]

Body2 == [rpm |-> 3000, speed |-> 80, temp_motor |-> 95, throttle_pos |-> 55,
          voltage |-> 128, gear |-> 4, fuel_level |-> 320]

Bodies ==
    { Body1,
      Body2,
      Overlay(Body1, [voltage |-> 141, lat |-> 77]),
      Overlay(Body1, [was_connected |-> FALSE, connection_status |-> "disconnected",
                      last_seen_seconds |-> 999]) }

\* The ids a payload may carry; NoId stands for an absent device_id key.
NoId == "<absent>"

WithId(body, id) == IF id = NoId THEN body ELSE Put(body, "device_id", id)

\* Every body for device A, and Body2 with every subset of the required keys
\* taken away (none, for a valid payload) under every kind of device_id.
Payloads ==
    { WithId(b, "A") : b \in Bodies }
    \cup { Drop(WithId(Body2, id), M) : id \in DeviceIds \cup {"", NoId}, M \in SUBSET RequiredSet }

\* A request: whether its content type is JSON, and its body.
Requests == {<<TRUE, data>> : data \in Payloads} \cup {<<FALSE, WithId(Body1, "A")>>}

\* data.get('device_id')
GetDeviceId(data) == IF "device_id" \in DOMAIN data THEN data["device_id"] ELSE NoId

\* `not device_id`: None and the empty string are falsy.
Falsy(id) == id = NoId \/ id = ""

MissingKeys(data) == RequiredSet \ DOMAIN data

(***************************************************************************)
(* Responses.                                                              *)
(***************************************************************************)
NoResp ==
    [op |-> "none", status |-> 0, message |-> "", device |-> "", named |-> {}, removed |-> {},
     count |-> 0, data |-> EmptyMap, report |-> EmptyMap]

Response(op, status, message) == [NoResp EXCEPT !.op = op, !.status = status, !.message = message]

(***************************************************************************)
(* receive_data: POST /data                                                *)
(***************************************************************************)
\* Mutant: the new fields are merged into the record the device already has.
BuildRecord_m(data, t) ==
    LET device_data ==
            [rpm |-> data["rpm"],
             speed |-> data["speed"],
             temp_motor |-> data["temp_motor"],
             throttle_pos |-> data["throttle_pos"],
             timestamp |-> t \div 100,
             connection_status |-> "connected",
             last_seen_seconds |-> 0,
             was_connected |-> TRUE]
        others == Drop(data, {"device_id"} \cup RequiredSet)
        prior == IF GetDeviceId(data) \in DOMAIN latest_data
                 THEN latest_data[GetDeviceId(data)] ELSE EmptyMap
    IN  FillMissing(Overlay(prior, Overlay(device_data, others)), default_fields)

\* The record built from a valid payload at time t (server.py:111-136).
BuildRecord(data, t) ==
    LET device_data ==
            [rpm |-> data["rpm"],
             speed |-> data["speed"],
             temp_motor |-> data["temp_motor"],
             throttle_pos |-> data["throttle_pos"],
             timestamp |-> t \div 100,
             connection_status |-> "connected",
             last_seen_seconds |-> 0,
             was_connected |-> TRUE]
        others == Drop(data, {"device_id"} \cup RequiredSet)
    IN  FillMissing(Overlay(device_data, others), default_fields)

\* Mutant: the arrival time is written before the required keys are checked.
StoreAfterIngest_m(ld, ls, data, t) ==
    LET device_id == GetDeviceId(data)
    IN  IF Falsy(device_id) THEN <<ld, ls>>
        ELSE IF \A i \in DOMAIN required_keys : required_keys[i] \in DOMAIN data
             THEN <<Put(ld, device_id, BuildRecord(data, t)), Put(ls, device_id, t)>>
             ELSE <<ld, Put(ls, device_id, t)>>

\* <<latest_data, last_seen>> after the handler has run on a JSON body.
StoreAfterIngest(ld, ls, data, t) ==
    LET device_id == GetDeviceId(data)
    IN  IF Falsy(device_id) THEN <<ld, ls>>
        ELSE IF \A i \in DOMAIN required_keys : required_keys[i] \in DOMAIN data
             THEN <<Put(ld, device_id, BuildRecord(data, t)), Put(ls, device_id, t)>>
             ELSE <<ld, ls>>

\* Mutant: the message lists the keys that are missing.
ErrorNamedKeys_m(data) ==
    IF Falsy(GetDeviceId(data)) THEN {"device_id"}
    ELSE {required_keys[i] : i \in {j \in DOMAIN required_keys : required_keys[j] \notin DOMAIN data}}

\* The keys the 400 message of a JSON body names.
ErrorNamedKeys(data) ==
    IF Falsy(GetDeviceId(data)) THEN {"device_id"}
    ELSE {required_keys[i] : i \in DOMAIN required_keys}

IngestResponse(is_json, data) ==
    IF ~is_json THEN Response("data", 400, "Content-Type must be application/json")
    ELSE IF Falsy(GetDeviceId(data))
         THEN [Response("data", 400, "Missing 'device_id' in JSON")
                 EXCEPT !.named = ErrorNamedKeys(data)]
    ELSE IF MissingKeys(data) = {}
         THEN [Response("data", 200, "Data received from") EXCEPT !.device = GetDeviceId(data)]
    ELSE [Response("data", 400, "Missing one of the required keys")
            EXCEPT !.named = ErrorNamedKeys(data)]

receive_data(is_json, data) ==
    /\ ~shutdown_event
    /\ LET after == IF is_json THEN StoreAfterIngest(latest_data, last_seen, data, now)
                    ELSE <<latest_data, last_seen>>
       IN  /\ latest_data' = after[1]
           /\ last_seen' = after[2]
    /\ resp' = IngestResponse(is_json, data)
    /\ refreshed' = IF resp'.status = 200 THEN Drop(refreshed, {resp'.device}) ELSE refreshed
    /\ UNCHANGED <<shutdown_event, timers, now>>

(***************************************************************************)
(* check_connection_status: the self-rescheduling 1 s sweep                *)
(***************************************************************************)
\* Mutant: a device is still connected at exactly the timeout.
SweepStatus_m(elapsed) ==
    IF elapsed <= Seconds(CONNECTION_TIMEOUT) THEN "connected" ELSE "disconnected"

\* connected / disconnected as the sweep computes it (server.py:35).
SweepStatus(elapsed) ==
    IF elapsed < Seconds(CONNECTION_TIMEOUT) THEN "connected" ELSE "disconnected"

\* Mutant: the sweep adds the elapsed time to the stored one.
SweepRecord_m(rec, elapsed) ==
    LET r1 == Put(rec, "connection_status", SweepStatus(elapsed))
        r2 == Put(r1, "last_seen_seconds", rec["last_seen_seconds"] + Round1(elapsed))
    IN  IF elapsed > Seconds(CONNECTION_TIMEOUT * 4) /\ "was_connected" \notin DOMAIN r2
        THEN Put(r2, "was_connected", TRUE)
        ELSE r2

\* One record after the sweep has visited it (server.py:35-41).
SweepRecord(rec, elapsed) ==
    LET r1 == Put(rec, "connection_status", SweepStatus(elapsed))
        r2 == Put(r1, "last_seen_seconds", Round1(elapsed))
    IN  IF elapsed > Seconds(CONNECTION_TIMEOUT * 4) /\ "was_connected" \notin DOMAIN r2
        THEN Put(r2, "was_connected", TRUE)
        ELSE r2

\* Mutant: the sweep drops the records silent for more than 4 x the timeout.
SweepAll_m(ld, ls, t) ==
    [d \in {e \in DOMAIN ld : e \in DOMAIN ls => t - ls[e] <= Seconds(CONNECTION_TIMEOUT * 4)} |->
        IF d \in DOMAIN ls THEN SweepRecord(ld[d], t - ls[d]) ELSE ld[d]]

\* latest_data after one pass of the sweep at time t (server.py:28-41).
SweepAll(ld, ls, t) ==
    [d \in DOMAIN ld |->
        IF d \in DOMAIN ls THEN SweepRecord(ld[d], t - ls[d]) ELSE ld[d]]

\* History: the devices whose derived fields a sweep or read at t writes.
Refreshed(ld, ls, t) == [d \in DOMAIN ld \cap DOMAIN ls |-> t]

RemoveAt(s, i) == [j \in 1..(Len(s) - 1) |-> IF j < i THEN s[j] ELSE s[j + 1]]

check_connection_status(i) ==
    /\ i \in DOMAIN timers
    /\ timers[i] <= now
    /\ IF shutdown_event
       THEN /\ timers' = RemoveAt(timers, i)
            /\ resp' = Response("sweep_skipped", 0, "")
            /\ UNCHANGED <<latest_data, refreshed>>
       ELSE /\ latest_data' = SweepAll(latest_data, last_seen, now)
            /\ timers' = Append(RemoveAt(timers, i), now + TimerPeriod)
            /\ resp' = Response("sweep", 0, "")
            /\ refreshed' = Refreshed(latest_data, last_seen, now)
    /\ UNCHANGED <<last_seen, shutdown_event, now>>

(***************************************************************************)
(* get_latest_data: GET /latest                                            *)
(***************************************************************************)
\* connected / disconnected as the full read computes it (server.py:158).
ReadStatus(elapsed) ==
    IF elapsed < Seconds(CONNECTION_TIMEOUT) THEN "connected" ELSE "disconnected"

\* Mutant: the elapsed time is taken as last_seen - current_time.
ReadRefresh_m(rec, elapsed) ==
    Put(Put(rec, "last_seen_seconds", 0 - Round1(elapsed)), "connection_status",
        ReadStatus(0 - elapsed))

\* The derived fields the read refreshes (server.py:155-158).
ReadRefresh(rec, elapsed) ==
    Put(Put(rec, "last_seen_seconds", Round1(elapsed)), "connection_status", ReadStatus(elapsed))

\* latest_data after the read's loop (server.py:154-163).
ReadAll(ld, ls, t) ==
    [d \in DOMAIN ld |->
        FillMissing(IF d \in DOMAIN ls THEN ReadRefresh(ld[d], t - ls[d]) ELSE ld[d],
                    read_defaults)]

get_latest_data ==
    /\ ~shutdown_event
    /\ latest_data' = ReadAll(latest_data, last_seen, now)
    /\ resp' = [Response("latest", 200, "") EXCEPT !.data = latest_data']
    /\ refreshed' = Refreshed(latest_data, last_seen, now)
    /\ UNCHANGED <<last_seen, shutdown_event, timers, now>>

(***************************************************************************)
(* get_status: GET /status                                                 *)
(***************************************************************************)
\* Mutant: the timeout itself still counts as connected.
StatusConnected_m(elapsed) == elapsed <= Seconds(CONNECTION_TIMEOUT)

\* 'connected' as the status query computes it (server.py:178).
StatusConnected(elapsed) == elapsed < Seconds(CONNECTION_TIMEOUT)

\* None, for the 'last_seen' of a device without an arrival time.
NoneSeen == [known |-> FALSE, tenths |-> 0]

StatusEntry(rec, ls, d, t) ==
    LET last_update == IF "timestamp" \in DOMAIN rec THEN rec["timestamp"] ELSE 0
    IN  IF d \in DOMAIN ls
        THEN [connected |-> StatusConnected(t - ls[d]),
              last_seen |-> [known |-> TRUE, tenths |-> Round1(t - ls[d])],
              last_update |-> last_update]
        ELSE [connected |-> FALSE, last_seen |-> NoneSeen, last_update |-> last_update]

StatusReport(ld, ls, t) == [d \in DOMAIN ld |-> StatusEntry(ld[d], ls, d, t)]

get_status ==
    /\ ~shutdown_event
    /\ resp' = [Response("status", 200, "") EXCEPT !.report = StatusReport(latest_data, last_seen, now)]
    /\ UNCHANGED <<latest_data, last_seen, shutdown_event, timers, now, refreshed>>

(***************************************************************************)
(* remove_disconnected: POST /remove_disconnected                          *)
(***************************************************************************)
\* Mutant: a device is evicted from the timeout on, not after it.
DevicesToRemove_m(ld, ls, t) ==
    {d \in DOMAIN ld : d \in DOMAIN ls /\ t - ls[d] >= Seconds(CONNECTION_TIMEOUT)}

\* devices_to_remove (server.py:64-71).
DevicesToRemove(ld, ls, t) ==
    {d \in DOMAIN ld : d \in DOMAIN ls /\ t - ls[d] > Seconds(CONNECTION_TIMEOUT)}

remove_disconnected ==
    /\ ~shutdown_event
    /\ LET devices_removed == DevicesToRemove(latest_data, last_seen, now)
       IN  /\ latest_data' = Drop(latest_data, devices_removed)
           /\ last_seen' = Drop(last_seen, devices_removed)
           /\ resp' = IF devices_removed # {}
                      THEN [Response("remove_disconnected", 200, "success")
                              EXCEPT !.removed = devices_removed,
                                     !.count = Cardinality(devices_removed)]
                      ELSE Response("remove_disconnected", 200, "info")
           /\ refreshed' = Drop(refreshed, devices_removed)
    /\ UNCHANGED <<shutdown_event, timers, now>>

(***************************************************************************)
(* remove_all: POST /remove_all                                            *)
(***************************************************************************)
\* Mutant: the records are counted after the store has been cleared.
DeviceCount_m(ld) == Cardinality(DOMAIN Drop(ld, DOMAIN ld))

\* len(latest_data), taken before the store is cleared (server.py:221).
DeviceCount(ld) == Cardinality(DOMAIN ld)

remove_all ==
    /\ ~shutdown_event
    /\ latest_data' = Drop(latest_data, DOMAIN latest_data)
    /\ last_seen' = Drop(last_seen, DOMAIN last_seen)
    /\ resp' = [Response("remove_all", 200, "success") EXCEPT !.count = DeviceCount(latest_data)]
    /\ refreshed' = Drop(refreshed, DOMAIN refreshed)
    /\ UNCHANGED <<shutdown_event, timers, now>>

(***************************************************************************)
(* signal_handler: Ctrl+C.  The event is set and the process exits: no     *)
(* request is served any more, a pending timer still fires.                *)
(***************************************************************************)
signal_handler ==
    /\ ~shutdown_event
    /\ shutdown_event' = TRUE
    /\ resp' = Response("shutdown", 0, "")
    /\ UNCHANGED <<latest_data, last_seen, timers, now, refreshed>>

(***************************************************************************)
(* The clock moves to a later reading.  resp describes the handler that    *)
(* ran at the current reading, so it is cleared.                           *)
(***************************************************************************)
Advance ==
    /\ \E t \in Instants : t > now /\ now' = t
    /\ resp' = NoResp
    /\ UNCHANGED <<latest_data, last_seen, shutdown_event, timers, refreshed>>

(***************************************************************************)
(*        Signal model: esp32_simulator.py, generate_realistic_data        *)
(*                                                                         *)
(* Units.  The floating-point quantities are held in fixed point, every    *)
(* product truncated towards minus infinity: rpm, speed, temperature and   *)
(* throttle in hundredths, the battery voltage in millivolts and the fuel  *)
(* level in 1/10000 of a percent.  The sample is held in the unit of the   *)
(* precision it is rounded to: rpm in whole units, speed, temp_motor,      *)
(* throttle_pos and fuel_level in tenths, voltage in hundredths.           *)
(***************************************************************************)
\* Number of samples one ECU generates in an exploration.
MaxTicks == 2

VehicleType == {"sedan", "suv", "pickup", "hatch", "sport"}

get_vehicle_config(vt) ==
    CASE vt = "sedan"  -> [rpm_range |-> <<800, 3500>>, speed_range |-> <<30, 120>>,
                           temp_range |-> <<85, 95>>, max_gear |-> 6]
      [] vt = "suv"    -> [rpm_range |-> <<900, 3200>>, speed_range |-> <<20, 100>>,
                           temp_range |-> <<88, 98>>, max_gear |-> 6]
      [] vt = "pickup" -> [rpm_range |-> <<1000, 3800>>, speed_range |-> <<25, 110>>,
                           temp_range |-> <<90, 105>>, max_gear |-> 5]
      [] vt = "hatch"  -> [rpm_range |-> <<850, 4500>>, speed_range |-> <<35, 140>>,
                           temp_range |-> <<82, 92>>, max_gear |-> 5]
      [] vt = "sport"  -> [rpm_range |-> <<1200, 7000>>, speed_range |-> <<40, 180>>,
                           temp_range |-> <<90, 110>>, max_gear |-> 7]

Min(a, b) == IF a < b THEN a ELSE b

Max(a, b) == IF a > b THEN a ELSE b

\* Mutant: the upper limit is not applied.
Clamp_m(lo, hi, x) == Max(lo, x)

\* max(lo, min(hi, x))
Clamp(lo, hi, x) == Max(lo, Min(hi, x))

\* round(x / q) to the nearest integer, an exact tie going to the even one.
RoundDiv(x, q) ==
    LET d == x \div q
        r == x % q
    IN  IF 2 * r < q THEN d
        ELSE IF 2 * r > q THEN d + 1
        ELSE IF d % 2 = 0 THEN d ELSE d + 1

\* int(x) of a value in hundredths: truncation towards zero.
IntOf(x) == IF x >= 0 THEN x \div 100 ELSE -((-x) \div 100)

\* throttle_variation, in percent, from time_factor in percent (lines 141-147).
ThrottleVariation(time_factor) ==
    LET driving_pattern == (100 + (100 + time_factor) \div 2) % 100
    IN  50 + driving_pattern \div 2

\* rpm_multiplier, in tenths (lines 152-156).
RpmMultiplier(vt) ==
    IF vt = "sport" THEN 15 ELSE IF vt = "pickup" THEN 12 ELSE 10

\* The gear for a speed in hundredths of km/h (lines 166-179).
GearOf(vt, speed) ==
    IF speed < 2000 THEN 1
    ELSE IF speed < 4000 THEN 2
    ELSE IF speed < 6000 THEN 3
    ELSE IF speed < 8000 THEN 4
    ELSE IF speed < 10000 THEN 5
    ELSE IF speed < 12000 THEN 6
    ELSE IF vt = "sport" THEN 7 ELSE 6

\* Mutant: the fuel level is not floored at 0.
NextState_m(vt, st, n) ==
    LET config == get_vehicle_config(vt)
        throttle == Clamp(0, 10000, st.throttle_base
                              + (n.throttle * ThrottleVariation(n.time_factor)) \div 100)
        target_rpm == (throttle * config.rpm_range[2] * RpmMultiplier(vt)) \div 1000
        rpm == (st.rpm_base * 9) \div 10 + target_rpm \div 10 + n.rpm
        speed_from_rpm == (rpm * config.speed_range[2]) \div 3000
        speed == (st.speed_base * 95) \div 100 + (speed_from_rpm * 5) \div 100 + n.speed
        temp_increase == rpm \div 300
        cooling == (speed * 8) \div 100
        temp == config.temp_range[1] * 100 + temp_increase - cooling + n.temp
        voltage_drop == rpm \div 1000
        voltage == 13800 - voltage_drop + n.voltage
        fuel_consumption == rpm \div 3000
    IN  [rpm_base      |-> Clamp(config.rpm_range[1] * 100, config.rpm_range[2] * 100, rpm),
         speed_base    |-> Clamp(0, config.speed_range[2] * 100, speed),
         temp_base     |-> Clamp(config.temp_range[1] * 100,
                                 (config.temp_range[2] + 10) * 100, temp),
         throttle_base |-> Clamp(0, 10000, throttle),
         fuel_level    |-> st.fuel_level - fuel_consumption,
         voltage_base  |-> Clamp(11500, 14500, voltage),
         gear          |-> GearOf(vt, speed)]

\* self.state after one call, for the random draws and the clock phase in n.
NextState(vt, st, n) ==
    LET config == get_vehicle_config(vt)
        throttle == Clamp(0, 10000, st.throttle_base
                              + (n.throttle * ThrottleVariation(n.time_factor)) \div 100)
        target_rpm == (throttle * config.rpm_range[2] * RpmMultiplier(vt)) \div 1000
        rpm == (st.rpm_base * 9) \div 10 + target_rpm \div 10 + n.rpm
        speed_from_rpm == (rpm * config.speed_range[2]) \div 3000
        speed == (st.speed_base * 95) \div 100 + (speed_from_rpm * 5) \div 100 + n.speed
        temp_increase == rpm \div 300
        cooling == (speed * 8) \div 100
        temp == config.temp_range[1] * 100 + temp_increase - cooling + n.temp
        voltage_drop == rpm \div 1000
        voltage == 13800 - voltage_drop + n.voltage
        fuel_consumption == rpm \div 3000
    IN  [rpm_base      |-> Clamp(config.rpm_range[1] * 100, config.rpm_range[2] * 100, rpm),
         speed_base    |-> Clamp(0, config.speed_range[2] * 100, speed),
         temp_base     |-> Clamp(config.temp_range[1] * 100,
                                 (config.temp_range[2] + 10) * 100, temp),
         throttle_base |-> Clamp(0, 10000, throttle),
         fuel_level    |-> Max(0, st.fuel_level - fuel_consumption),
         voltage_base  |-> Clamp(11500, 14500, voltage),
         gear          |-> GearOf(vt, speed)]

\* The ECUData built from self.state (lines 207-217).
Sample(st) ==
    [rpm          |-> IntOf(st.rpm_base),
     speed        |-> RoundDiv(st.speed_base, 10),
     temp_motor   |-> RoundDiv(st.temp_base, 10),
     throttle_pos |-> RoundDiv(st.throttle_base, 10),
     voltage      |-> RoundDiv(st.voltage_base, 10),
     gear         |-> st.gear,
     fuel_level   |-> RoundDiv(st.fuel_level, 1000)]

\* The random draws of one call, at the ends of their ranges, and the phase
\* of the 5-minute cycle at its start and at its end.  The draws for the
\* temperature and for the voltage change nothing but the sample: they are
\* explored together.
Draws ==
    {[throttle |-> 500 * a, time_factor |-> tf, rpm |-> 5000 * b, speed |-> 200 * c,
      temp |-> 100 * d, voltage |-> 100 * d] :
        a \in {-1, 1}, tf \in {0, 99}, b \in {-1, 1}, c \in {-1, 1}, d \in {-1, 1}}

\* The states explored first: the two ends of what the constructor draws
\* (lines 78-87), and the two states a long run settles in, everything at
\* its lower limit with the tank nearly empty and everything at its upper.
InitialStates(vt) ==
    LET config == get_vehicle_config(vt)
    IN  {[rpm_base |-> config.rpm_range[1] * 100, speed_base |-> config.speed_range[1] * 100,
          temp_base |-> config.temp_range[1] * 100, throttle_base |-> 1000,
          fuel_level |-> 300000, voltage_base |-> 12500, gear |-> 3],
         [rpm_base |-> config.rpm_range[2] * 100, speed_base |-> config.speed_range[2] * 100,
          temp_base |-> config.temp_range[2] * 100, throttle_base |-> 4000,
          fuel_level |-> 1000000, voltage_base |-> 13500, gear |-> 3],
         [rpm_base |-> config.rpm_range[1] * 100, speed_base |-> 0,
          temp_base |-> config.temp_range[1] * 100, throttle_base |-> 0,
          fuel_level |-> 50, voltage_base |-> 13800, gear |-> 1],
         [rpm_base |-> config.rpm_range[2] * 100, speed_base |-> config.speed_range[2] * 100,
          temp_base |-> config.temp_range[2] * 100, throttle_base |-> 10000,
          fuel_level |-> 500000, voltage_base |-> 13100, gear |-> 6]}

NoSample == [rpm |-> 0, speed |-> 0, temp_motor |-> 0, throttle_pos |-> 0,
             voltage |-> 0, gear |-> 0, fuel_level |-> 0]

generate_realistic_data ==
    /\ ticks < MaxTicks
    /\ \E n \in Draws :
          /\ state' = NextState(vehicle_type, state, n)
          /\ ecu_data' = Sample(state')
    /\ ticks' = ticks + 1
    /\ UNCHANGED vehicle_type

\* The signal model before its first sample.
SignalIdle(vt, st) ==
    /\ vehicle_type = vt
    /\ state = st
    /\ ecu_data = NoSample
    /\ ticks = 0

(***************************************************************************)
(*     The server's handlers statement by statement (server.py has no      *)
(*     lock): the Timer thread of the sweep and the request threads.       *)
(*                                                                         *)
(* A step is one statement that reads or writes latest_data or last_seen,  *)
(* together with the statements on local variables around it.  pc names    *)
(* the line of the statement a thread executes next.  A record is a        *)
(* mutable dict: a handler that holds a reference to a record that has     *)
(* since been replaced or deleted writes to an object the store no longer  *)
(* holds (frame.detached).  An exception ends the thread's handler: in a   *)
(* request thread it becomes the 500 response, in the Timer thread the     *)
(* sweep ends without scheduling the next one ("crashed").                 *)
(***************************************************************************)
\* Number of requests served in an exploration.
MaxRequests == 3

Workers == {"w1", "w2"}

Sweeper == "timer"

Threads == Workers \cup {Sweeper}

\* The clock readings, in seconds: an arrival at 0 s is within the timeout
\* at 0 s and past it at 16 s, when the Timer started at 0 s is due as well.
ThreadSeconds == {0, 16}

ThreadInstants == {Seconds(s) : s \in ThreadSeconds}

\* The bodies POSTed: the minimal payload for each device, and one without
\* device_id.
ThreadPayloads == {WithId(Body1, id) : id \in DeviceIds \cup {NoId}}

NoFrame ==
    [device_id |-> NoId, current_time |-> 0, keys |-> <<>>, size |-> 0,
     time_since_last_seen |-> 0, devices_to_remove |-> <<>>, data |-> EmptyMap,
     detached |-> FALSE, device_count |-> 0]

NoOut == [op |-> "none", status |-> 0, device |-> NoId, data |-> EmptyMap, removed |-> <<>>,
          count |-> 0]

\* Thread th goes to label with its locals changed.
Goto(th, label, fr) ==
    /\ pc' = [pc EXCEPT ![th] = label]
    /\ frame' = [frame EXCEPT ![th] = fr]

\* The handler of request thread w returns response o.
Return(w, o) ==
    /\ pc' = [pc EXCEPT ![w] = "idle"]
    /\ frame' = [frame EXCEPT ![w] = NoFrame]
    /\ out' = [out EXCEPT ![w] = o]

\* An uncaught or caught exception in a request thread: the 500 response.
Raise(w, op) == Return(w, [NoOut EXCEPT !.op = op, !.status = 500])

\* A request thread takes a request: the first thread that is free.
Accepts(w) ==
    /\ pc[w] = "idle"
    /\ w = "w1" \/ pc["w1"] # "idle"
    /\ served < MaxRequests
    /\ served' = served + 1

\* The record of device d stops being the object the store holds: the
\* frames that reference it (get_latest_data, line 154) are detached.
Detach(fr, D) ==
    [th \in DOMAIN fr |->
        IF fr[th].device_id \in D /\ pc[th] \in {"latest:156", "latest:157", "latest:158", "latest:161"}
        THEN [fr[th] EXCEPT !.detached = TRUE] ELSE fr[th]]

SeqWithout(s, x) == SelectSeq(s, LAMBDA y : y # x)

(***************************************************************************)
(* POST /data, lines 89-146.                                               *)
(***************************************************************************)
\* Lines 92-107: validation, on the request alone, and the clock reading.
receive_data_92(w, data) ==
    /\ Accepts(w)
    /\ IF IngestResponse(TRUE, data).status = 200
       THEN /\ Goto(w, "data:108", [NoFrame EXCEPT !.device_id = GetDeviceId(data),
                                                    !.current_time = now, !.data = data])
            /\ out' = [out EXCEPT ![w] = NoOut]
       ELSE Return(w, [NoOut EXCEPT !.op = "data", !.status = 400])
    /\ UNCHANGED <<serverVars, key_order>>

\* Line 108: last_seen[device_id] = current_time
receive_data_108(w) ==
    /\ pc[w] = "data:108"
    /\ last_seen' = Put(last_seen, frame[w].device_id, frame[w].current_time)
    /\ Goto(w, "data:139", frame[w])
    /\ UNCHANGED <<latest_data, shutdown_event, timers, now, resp, refreshed, out, key_order, served>>

\* Mutant: the mapping is rebuilt around the new record.
StoreRecord_m(ld, d, rec) == Put(EmptyMap, d, rec)

\* Line 139: latest_data[device_id] = device_data
StoreRecord(ld, d, rec) == Put(ld, d, rec)

\* Lines 110-141: the record is built and stored; the 200 response.
receive_data_139(w) ==
    LET d == frame[w].device_id
    IN  /\ pc[w] = "data:139"
        /\ latest_data' = StoreRecord(latest_data, d, BuildRecord(frame[w].data, now))
        /\ key_order' = IF d \in DOMAIN latest_data THEN key_order ELSE Append(key_order, d)
        /\ pc' = [pc EXCEPT ![w] = "idle"]
        /\ frame' = [Detach(frame, {d}) EXCEPT ![w] = NoFrame]
        /\ out' = [out EXCEPT ![w] = [NoOut EXCEPT !.op = "data", !.status = 200, !.device = d]]
        /\ UNCHANGED <<last_seen, shutdown_event, timers, now, resp, refreshed, served>>

(***************************************************************************)
(* check_connection_status in its Timer thread, lines 23-45.               *)
(***************************************************************************)
\* The sweep ends on an exception: nothing schedules the next Timer.
Crash ==
    /\ pc' = [pc EXCEPT ![Sweeper] = "crashed"]
    /\ frame' = [frame EXCEPT ![Sweeper] = NoFrame]

\* Mutant: the sweep does not test the shutdown event when it begins.
sweep_25_m ==
    /\ pc[Sweeper] = "idle"
    /\ \E i \in DOMAIN timers : timers[i] <= now /\ timers' = RemoveAt(timers, i)
    /\ Goto(Sweeper, "sweep:29", [NoFrame EXCEPT !.current_time = now, !.keys = key_order])
    /\ UNCHANGED <<latest_data, last_seen, shutdown_event, now, resp, refreshed, out, key_order, served>>

\* Lines 25-29: the Timer fires; the keys are copied.
sweep_25 ==
    /\ pc[Sweeper] = "idle"
    /\ \E i \in DOMAIN timers : timers[i] <= now /\ timers' = RemoveAt(timers, i)
    /\ IF shutdown_event
       THEN UNCHANGED <<pc, frame>>
       ELSE Goto(Sweeper, "sweep:29", [NoFrame EXCEPT !.current_time = now, !.keys = key_order])
    /\ UNCHANGED <<latest_data, last_seen, shutdown_event, now, resp, refreshed, out, key_order, served>>

\* Lines 29-30: the next key of the copy; if device_id in last_seen
sweep_29 ==
    /\ pc[Sweeper] = "sweep:29"
    /\ IF frame[Sweeper].keys = <<>>
       THEN Goto(Sweeper, "sweep:44", frame[Sweeper])
       ELSE LET d == Head(frame[Sweeper].keys)
                fr == [frame[Sweeper] EXCEPT !.device_id = d, !.keys = Tail(@)]
            IN  Goto(Sweeper, IF d \in DOMAIN last_seen THEN "sweep:31" ELSE "sweep:29", fr)
    /\ UNCHANGED <<serverVars, out, key_order, served>>

\* Line 31: time_since_last_seen = current_time - last_seen[device_id]
sweep_31 ==
    LET d == frame[Sweeper].device_id
    IN  /\ pc[Sweeper] = "sweep:31"
        /\ IF d \in DOMAIN last_seen
           THEN Goto(Sweeper, "sweep:34",
                     [frame[Sweeper] EXCEPT !.time_since_last_seen =
                                                frame[Sweeper].current_time - last_seen[d]])
           ELSE Crash
        /\ UNCHANGED <<serverVars, out, key_order, served>>

\* Line 34: if device_id in latest_data
sweep_34 ==
    /\ pc[Sweeper] = "sweep:34"
    /\ Goto(Sweeper, IF frame[Sweeper].device_id \in DOMAIN latest_data
                     THEN "sweep:35" ELSE "sweep:29", frame[Sweeper])
    /\ UNCHANGED <<serverVars, out, key_order, served>>

\* Line 35: latest_data[device_id]['connection_status'] = ...
sweep_35 ==
    LET d == frame[Sweeper].device_id
    IN  /\ pc[Sweeper] = "sweep:35"
        /\ IF d \in DOMAIN latest_data
           THEN /\ latest_data' = [latest_data EXCEPT ![d] =
                       Put(@, "connection_status", SweepStatus(frame[Sweeper].time_since_last_seen))]
                /\ Goto(Sweeper, "sweep:36", frame[Sweeper])
           ELSE Crash /\ UNCHANGED latest_data
        /\ UNCHANGED <<last_seen, shutdown_event, timers, now, resp, refreshed, out, key_order, served>>

\* Lines 36-41: latest_data[device_id]['last_seen_seconds'] = ...; past four
\* timeouts, was_connected is set if the record lacks it.
sweep_36 ==
    LET d == frame[Sweeper].device_id
        elapsed == frame[Sweeper].time_since_last_seen
        seconds == Put(latest_data[d], "last_seen_seconds", Round1(elapsed))
    IN  /\ pc[Sweeper] = "sweep:36"
        /\ IF d \in DOMAIN latest_data
           THEN /\ latest_data' = [latest_data EXCEPT ![d] =
                       IF elapsed > Seconds(CONNECTION_TIMEOUT * 4)
                       THEN FillMissing(seconds, [was_connected |-> TRUE])
                       ELSE seconds]
                /\ Goto(Sweeper, "sweep:29", frame[Sweeper])
           ELSE Crash /\ UNCHANGED latest_data
        /\ UNCHANGED <<last_seen, shutdown_event, timers, now, resp, refreshed, out, key_order, served>>

\* Line 44: if not shutdown_event.is_set()
sweep_44 ==
    /\ pc[Sweeper] = "sweep:44"
    /\ IF shutdown_event
       THEN Goto(Sweeper, "idle", NoFrame)
       ELSE Goto(Sweeper, "sweep:45", frame[Sweeper])
    /\ UNCHANGED <<serverVars, out, key_order, served>>

\* Line 45: Timer(1.0, check_connection_status).start()
sweep_45 ==
    /\ pc[Sweeper] = "sweep:45"
    /\ timers' = Append(timers, now + TimerPeriod)
    /\ Goto(Sweeper, "idle", NoFrame)
    /\ UNCHANGED <<latest_data, last_seen, shutdown_event, now, resp, refreshed, out, key_order, served>>

(***************************************************************************)
(* GET /latest, lines 148-166.  The loop iterates over the live dict: the  *)
(* iterator raises RuntimeError when the dict has changed size, and is     *)
(* taken to raise it as well when a key it has yet to visit is gone.       *)
(***************************************************************************)
\* Lines 151-154: the clock reading; the iterator is created.
get_latest_data_151(w) ==
    /\ Accepts(w)
    /\ Goto(w, "latest:154", [NoFrame EXCEPT !.current_time = now, !.keys = key_order,
                                              !.size = Cardinality(DOMAIN latest_data)])
    /\ out' = [out EXCEPT ![w] = NoOut]
    /\ UNCHANGED <<serverVars, key_order>>

\* Lines 154-155: the next item; if device_id in last_seen
get_latest_data_154(w) ==
    LET fr == frame[w]
    IN  /\ pc[w] = "latest:154"
        /\ IF Cardinality(DOMAIN latest_data) # fr.size
           THEN Raise(w, "latest")
           ELSE IF fr.keys = <<>>
           THEN Goto(w, "latest:166", fr) /\ UNCHANGED out
           ELSE IF Head(fr.keys) \notin DOMAIN latest_data
           THEN Raise(w, "latest")
           ELSE /\ Goto(w, IF Head(fr.keys) \in DOMAIN last_seen THEN "latest:156" ELSE "latest:161",
                        [fr EXCEPT !.device_id = Head(fr.keys), !.keys = Tail(@),
                                   !.detached = FALSE])
                /\ UNCHANGED out
        /\ UNCHANGED <<serverVars, key_order, served>>

\* Line 156: time_since_last_seen = current_time - last_seen[device_id]
get_latest_data_156(w) ==
    LET d == frame[w].device_id
    IN  /\ pc[w] = "latest:156"
        /\ IF d \in DOMAIN last_seen
           THEN /\ Goto(w, "latest:157", [frame[w] EXCEPT !.time_since_last_seen =
                                                             frame[w].current_time - last_seen[d]])
                /\ UNCHANGED out
           ELSE Raise(w, "latest")
        /\ UNCHANGED <<serverVars, key_order, served>>

\* A write of field := value to the record data refers to.
WriteData(w, field, value) ==
    latest_data' = IF frame[w].detached THEN latest_data
                   ELSE [latest_data EXCEPT ![frame[w].device_id] = Put(@, field, value)]

\* Line 157: data['last_seen_seconds'] = round(time_since_last_seen, 1)
get_latest_data_157(w) ==
    /\ pc[w] = "latest:157"
    /\ WriteData(w, "last_seen_seconds", Round1(frame[w].time_since_last_seen))
    /\ Goto(w, "latest:158", frame[w])
    /\ UNCHANGED <<last_seen, shutdown_event, timers, now, resp, refreshed, out, key_order, served>>

\* Line 158: data['connection_status'] = ...
get_latest_data_158(w) ==
    /\ pc[w] = "latest:158"
    /\ WriteData(w, "connection_status", ReadStatus(frame[w].time_since_last_seen))
    /\ Goto(w, "latest:161", frame[w])
    /\ UNCHANGED <<last_seen, shutdown_event, timers, now, resp, refreshed, out, key_order, served>>

\* Lines 161-163: the fields data lacks are set to the read-time defaults.
get_latest_data_161(w) ==
    /\ pc[w] = "latest:161"
    /\ latest_data' = IF frame[w].detached THEN latest_data
                      ELSE [latest_data EXCEPT ![frame[w].device_id] = FillMissing(@, read_defaults)]
    /\ Goto(w, "latest:154", frame[w])
    /\ UNCHANGED <<last_seen, shutdown_event, timers, now, resp, refreshed, out, key_order, served>>

\* Line 166: return jsonify(latest_data), 200
get_latest_data_166(w) ==
    /\ pc[w] = "latest:166"
    /\ Return(w, [NoOut EXCEPT !.op = "latest", !.status = 200, !.data = latest_data])
    /\ UNCHANGED <<serverVars, key_order, served>>

(***************************************************************************)
(* POST /remove_disconnected, lines 191-212 and 62-81.  The handler        *)
(* catches every exception and answers 500.                                *)
(***************************************************************************)
\* Lines 64-67: the clock reading; the keys are copied.
remove_disconnected_64(w) ==
    /\ Accepts(w)
    /\ Goto(w, "remove:67", [NoFrame EXCEPT !.current_time = now, !.keys = key_order])
    /\ out' = [out EXCEPT ![w] = NoOut]
    /\ UNCHANGED <<serverVars, key_order>>

\* Lines 67-68: the next key of the copy; if device_id in last_seen
remove_disconnected_67(w) ==
    LET fr == frame[w]
    IN  /\ pc[w] = "remove:67"
        /\ IF fr.keys = <<>>
           THEN Goto(w, "remove:74", [fr EXCEPT !.keys = fr.devices_to_remove])
           ELSE Goto(w, IF Head(fr.keys) \in DOMAIN last_seen THEN "remove:69" ELSE "remove:67",
                     [fr EXCEPT !.device_id = Head(fr.keys), !.keys = Tail(@)])
        /\ UNCHANGED <<serverVars, out, key_order, served>>

\* Lines 69-71: the elapsed time is read; past the timeout the device is
\* appended to devices_to_remove.
remove_disconnected_69(w) ==
    LET fr == frame[w]
        d == fr.device_id
    IN  /\ pc[w] = "remove:69"
        /\ IF d \in DOMAIN last_seen
           THEN /\ Goto(w, "remove:67",
                        [fr EXCEPT !.devices_to_remove =
                            IF fr.current_time - last_seen[d] > Seconds(CONNECTION_TIMEOUT)
                            THEN Append(@, d) ELSE @])
                /\ UNCHANGED out
           ELSE Raise(w, "remove_disconnected")
        /\ UNCHANGED <<serverVars, key_order, served>>

\* Lines 74-75: the next device to remove; if device_id in latest_data.
\* After the last one, lines 196-207: the 200 response.
remove_disconnected_74(w) ==
    LET fr == frame[w]
    IN  /\ pc[w] = "remove:74"
        /\ IF fr.keys = <<>>
           THEN Return(w, [NoOut EXCEPT !.op = "remove_disconnected", !.status = 200,
                                        !.removed = fr.devices_to_remove])
           ELSE /\ Goto(w, IF Head(fr.keys) \in DOMAIN latest_data THEN "remove:76" ELSE "remove:77",
                        [fr EXCEPT !.device_id = Head(fr.keys), !.keys = Tail(@)])
                /\ UNCHANGED out
        /\ UNCHANGED <<serverVars, key_order, served>>

\* Line 76: del latest_data[device_id]
remove_disconnected_76(w) ==
    LET d == frame[w].device_id
    IN  /\ pc[w] = "remove:76"
        /\ IF d \in DOMAIN latest_data
           THEN /\ latest_data' = Drop(latest_data, {d})
                /\ key_order' = SeqWithout(key_order, d)
                /\ pc' = [pc EXCEPT ![w] = "remove:77"]
                /\ frame' = Detach(frame, {d})
                /\ UNCHANGED out
           ELSE Raise(w, "remove_disconnected") /\ UNCHANGED <<latest_data, key_order>>
        /\ UNCHANGED <<last_seen, shutdown_event, timers, now, resp, refreshed, served>>

\* Line 77: if device_id in last_seen
remove_disconnected_77(w) ==
    /\ pc[w] = "remove:77"
    /\ Goto(w, IF frame[w].device_id \in DOMAIN last_seen THEN "remove:78" ELSE "remove:74",
            frame[w])
    /\ UNCHANGED <<serverVars, out, key_order, served>>

\* Line 78: del last_seen[device_id]
remove_disconnected_78(w) ==
    LET d == frame[w].device_id
    IN  /\ pc[w] = "remove:78"
        /\ IF d \in DOMAIN last_seen
           THEN /\ last_seen' = Drop(last_seen, {d})
                /\ Goto(w, "remove:74", frame[w])
                /\ UNCHANGED out
           ELSE Raise(w, "remove_disconnected") /\ UNCHANGED last_seen
        /\ UNCHANGED <<latest_data, shutdown_event, timers, now, resp, refreshed, key_order, served>>

(***************************************************************************)
(* POST /remove_all, lines 214-237.                                        *)
(***************************************************************************)
\* Line 221: device_count = len(latest_data)
remove_all_221(w) ==
    /\ Accepts(w)
    /\ Goto(w, "remove_all:224", [NoFrame EXCEPT !.device_count = DeviceCount(latest_data)])
    /\ out' = [out EXCEPT ![w] = NoOut]
    /\ UNCHANGED <<serverVars, key_order>>

\* Line 224: latest_data.clear()
remove_all_224(w) ==
    /\ pc[w] = "remove_all:224"
    /\ latest_data' = EmptyMap
    /\ key_order' = <<>>
    /\ pc' = [pc EXCEPT ![w] = "remove_all:225"]
    /\ frame' = Detach(frame, DOMAIN latest_data)
    /\ UNCHANGED <<last_seen, shutdown_event, timers, now, resp, refreshed, out, served>>

\* Lines 225-232: last_seen.clear(); the 200 response.
remove_all_225(w) ==
    /\ pc[w] = "remove_all:225"
    /\ last_seen' = EmptyMap
    /\ Return(w, [NoOut EXCEPT !.op = "remove_all", !.status = 200,
                               !.count = frame[w].device_count])
    /\ UNCHANGED <<latest_data, shutdown_event, timers, now, resp, refreshed, key_order, served>>

\* The clock moves on between two statements.
Tick ==
    /\ \E t \in ThreadInstants : t > now /\ now' = t
    /\ UNCHANGED <<latest_data, last_seen, shutdown_event, timers, resp, refreshed, threadVars>>

\* No handler runs.
ThreadsIdle ==
    /\ pc = [th \in Threads |-> "idle"]
    /\ frame = [th \in Threads |-> NoFrame]
    /\ out = [w \in Workers |-> NoOut]
    /\ key_order = <<>>
    /\ served = 0

(***************************************************************************)
(*   The fleet of simulated devices: esp32_simulator.py, ESP32Simulator    *)
(*   run / start / stop, SimulatorManager and main.                        *)
(*                                                                         *)
(* The main thread calls the methods of the manager one after the other,   *)
(* in any order; a method that loops over the devices takes one step for   *)
(* each.  Every started device has a thread running its loop; the threads  *)
(* and the main thread interleave freely.  time.sleep is part of the step  *)
(* it follows.  The monitor's clock is the time it has slept.              *)
(***************************************************************************)
\* Number of 10 s sleeps of one call of monitor.
MaxPolls == 2

max_consecutive_failures == 5

\* The ESP32Simulator objects an exploration constructs.
Objects == {1, 2}

\* The values of num_devices (and of --devices) explored.
NumDevices == {-1, 0, 1, 2}

\* The values of duration explored: None, 0 and 10 seconds.
Durations == {<<>>, <<0>>, <<10>>}

\* What send_data meets: status 200, another status, the two exceptions of
\* requests, and the simulated failure.
SendOutcomes == {"200", "500", "ConnectionError", "Timeout", "simulated"}

\* f"Truck_{i+1:03d}" for i + 1 = 1, 2, ...
TruckIds == <<"Truck_001", "Truck_002", "Truck_003", "Truck_004">>

NewDriver(id) ==
    [device_id |-> id, running |-> FALSE, thread |-> "none", consecutive_failures |-> 0]

NoHistory == [stop_called |-> FALSE, late_sends |-> 0]

NoResult == [op |-> "none", device_ids |-> <<>>, error |-> FALSE]

IdleCaller ==
    [pc |-> "idle", todo |-> <<>>, monitoring |-> FALSE, duration |-> <<>>, polls |-> 0,
     result |-> NoResult]

\* The drivers registered, in the order of the dict.
Registered(devs) ==
    LET present == SelectSeq(TruckIds, LAMBDA id : id \in DOMAIN devs)
    IN  [i \in DOMAIN present |-> devs[present[i]]]

\* Mutant: fewer than one device is a configuration error.
CreateDevices_m(devs, drvs, n) ==
    LET device_ids == [i \in 1..n |-> TruckIds[i]]
    IN  [devices |-> [id \in DOMAIN devs \cup {device_ids[i] : i \in 1..n} |->
                         IF \E i \in 1..n : device_ids[i] = id
                         THEN Len(drvs) + (CHOOSE i \in 1..n : device_ids[i] = id)
                         ELSE devs[id]],
         drivers |-> drvs \o [i \in 1..n |-> NewDriver(device_ids[i])],
         device_ids |-> device_ids,
         error |-> n < 1]

\* create_devices (lines 362-377): range(num_devices) is empty below 1; a
\* device registered under an id replaces the one that was there.
CreateDevices(devs, drvs, n) ==
    LET device_ids == [i \in 1..n |-> TruckIds[i]]
    IN  [devices |-> [id \in DOMAIN devs \cup {device_ids[i] : i \in 1..n} |->
                         IF \E i \in 1..n : device_ids[i] = id
                         THEN Len(drvs) + (CHOOSE i \in 1..n : device_ids[i] = id)
                         ELSE devs[id]],
         drivers |-> drvs \o [i \in 1..n |-> NewDriver(device_ids[i])],
         device_ids |-> device_ids,
         error |-> FALSE]

\* The manager's method, called with any number.
create_devices(n) ==
    LET made == CreateDevices(devices, drivers, n)
    IN  /\ caller.pc = "idle"
        /\ Len(made.drivers) <= Cardinality(Objects)
        /\ devices' = made.devices
        /\ drivers' = made.drivers
        /\ history' = history \o [i \in 1..n |-> NoHistory]
        /\ caller' = [caller EXCEPT !.result = [op |-> "create_devices",
                                                device_ids |-> made.device_ids,
                                                error |-> made.error]]
        /\ UNCHANGED manager_running

\* main, lines 514-529: fewer than one device is an error and main returns;
\* otherwise the manager is made and create_devices called.
main_514(n) ==
    /\ caller = IdleCaller
    /\ Len(drivers) = 0
    /\ IF n < 1
       THEN /\ caller' = [caller EXCEPT !.pc = "returned",
                                        !.result = [op |-> "main", device_ids |-> <<>>,
                                                    error |-> TRUE]]
            /\ UNCHANGED <<devices, manager_running, drivers, history>>
       ELSE create_devices(n)

\* start_all, line 381: self.running = True
start_all_381 ==
    /\ caller.pc = "idle"
    /\ \A o \in DOMAIN drivers : drivers[o].thread \in {"none", "exited"}
    /\ manager_running' = TRUE
    /\ caller' = [caller EXCEPT !.pc = "start_all:382", !.todo = Registered(devices)]
    /\ UNCHANGED <<devices, drivers, history>>

\* start_all, lines 382-384, and start, lines 319-325: the thread of the
\* next device is started.
start_319 ==
    /\ caller.pc = "start_all:382"
    /\ IF caller.todo = <<>>
       THEN /\ caller' = [caller EXCEPT !.pc = "idle", !.result = [NoResult EXCEPT !.op = "start_all"]]
            /\ UNCHANGED <<drivers, history>>
       ELSE LET o == Head(caller.todo)
            IN  /\ drivers' = [drivers EXCEPT ![o].thread = "run:278"]
                /\ history' = [history EXCEPT ![o] = NoHistory]
                /\ caller' = [caller EXCEPT !.todo = Tail(@)]
    /\ UNCHANGED <<devices, manager_running>>

\* stop_all, line 388: self.running = False
EnterStopAll ==
    /\ manager_running' = FALSE
    /\ caller' = [caller EXCEPT !.pc = "stop_all:389", !.todo = Registered(devices)]
    /\ UNCHANGED <<devices, drivers, history>>

stop_all_388 ==
    /\ caller.pc = "idle"
    /\ EnterStopAll

\* stop_all, lines 389-391, and stop, line 330: self.running = False for
\* the next device.  After the last one stop_all returns, and with it
\* monitor if stop_all was called from it.
stop_330 ==
    /\ caller.pc = "stop_all:389"
    /\ IF caller.todo = <<>>
       THEN /\ caller' = [IdleCaller EXCEPT !.result =
                             [NoResult EXCEPT !.op = IF caller.monitoring THEN "monitor"
                                                     ELSE "stop_all"]]
            /\ UNCHANGED <<drivers, history>>
       ELSE LET o == Head(caller.todo)
            IN  /\ drivers' = [drivers EXCEPT ![o].running = FALSE]
                /\ history' = [history EXCEPT ![o].stop_called = TRUE]
                /\ caller' = [caller EXCEPT !.pc = "stop:331"]
    /\ UNCHANGED <<devices, manager_running>>

\* stop, lines 331-333: join(timeout=5.0) returns, the thread ended or not.
stop_331 ==
    /\ caller.pc = "stop:331"
    /\ caller' = [caller EXCEPT !.pc = "stop_all:389", !.todo = Tail(@)]
    /\ UNCHANGED <<devices, manager_running, drivers, history>>

\* monitor, line 407: start_time = time.time()
monitor_407(duration) ==
    /\ caller.pc = "idle"
    /\ caller' = [caller EXCEPT !.pc = "monitor:410", !.monitoring = TRUE,
                                !.duration = duration, !.polls = 0]
    /\ UNCHANGED <<devices, manager_running, drivers, history>>

\* if duration and (time.time() - start_time) > duration
DurationReached(duration, slept) ==
    /\ duration # <<>>
    /\ duration[1] # 0
    /\ slept > duration[1]

\* monitor, lines 410-413: the tests of the loop; finally: stop_all()
monitor_410 ==
    /\ caller.pc = "monitor:410"
    /\ IF ~manager_running \/ DurationReached(caller.duration, caller.polls * 10)
       THEN EnterStopAll
       ELSE /\ caller' = [caller EXCEPT !.pc = "monitor:416"]
            /\ UNCHANGED <<devices, manager_running, drivers, history>>

\* monitor, lines 416-418: time.sleep(10) and the count of active devices.
monitor_416 ==
    /\ caller.pc = "monitor:416"
    /\ caller.polls < MaxPolls
    /\ caller' = [caller EXCEPT !.pc = "monitor:410", !.polls = @ + 1]
    /\ UNCHANGED <<devices, manager_running, drivers, history>>

\* Mutant: the interrupt ends monitor at once.
KeyboardInterrupt_m ==
    /\ caller.pc \in {"monitor:410", "monitor:416"}
    /\ caller' = [IdleCaller EXCEPT !.result = [NoResult EXCEPT !.op = "monitor"]]
    /\ UNCHANGED <<devices, manager_running, drivers, history>>

\* monitor, lines 420-423: KeyboardInterrupt in the loop; finally: stop_all()
KeyboardInterrupt ==
    /\ caller.pc \in {"monitor:410", "monitor:416"}
    /\ EnterStopAll

\* run, lines 278-282, in the thread of driver o.
run_278(o) ==
    /\ drivers[o].thread = "run:278"
    /\ drivers' = [drivers EXCEPT ![o].running = TRUE, ![o].consecutive_failures = 0,
                                  ![o].thread = "run:284"]
    /\ UNCHANGED <<devices, manager_running, caller, history>>

\* run, line 284: while self.running
run_284(o) ==
    /\ drivers[o].thread = "run:284"
    /\ drivers' = [drivers EXCEPT ![o].thread = IF drivers[o].running THEN "run:286" ELSE "exited",
                                  ![o].consecutive_failures = IF drivers[o].running THEN @ ELSE 0]
    /\ UNCHANGED <<devices, manager_running, caller, history>>

\* send_data, lines 219-269: True for status 200, False for anything else.
send_data(outcome) == outcome = "200"

\* Mutant: a failure leaves the counter as it is.
AfterSend_m(failures, success) ==
    IF success THEN 0 ELSE failures

\* run, lines 297-300: consecutive_failures after a send.
AfterSend(failures, success) ==
    IF success THEN 0 ELSE failures + 1

\* Mutant: the thread gives up at max_consecutive_failures.
run_286_m(o, outcome) ==
    LET failures == AfterSend(drivers[o].consecutive_failures, send_data(outcome))
    IN  /\ drivers[o].thread = "run:286"
        /\ drivers' = [drivers EXCEPT ![o].consecutive_failures = failures,
                                      ![o].thread = IF failures >= max_consecutive_failures
                                                    THEN "exited" ELSE "run:284"]
        /\ history' = [history EXCEPT ![o].late_sends =
                          IF history[o].stop_called /\ @ < 2 THEN @ + 1 ELSE @]
        /\ UNCHANGED <<devices, manager_running, caller>>

\* run, lines 286-308: a sample is generated and sent; the counter follows
\* the result; at max_consecutive_failures the thread pauses, otherwise it
\* sleeps interval and tests the flag again.
run_286(o, outcome) ==
    LET failures == AfterSend(drivers[o].consecutive_failures, send_data(outcome))
    IN  /\ drivers[o].thread = "run:286"
        /\ drivers' = [drivers EXCEPT ![o].consecutive_failures = failures,
                                      ![o].thread = IF failures >= max_consecutive_failures
                                                    THEN "run:303" ELSE "run:284"]
        /\ history' = [history EXCEPT ![o].late_sends =
                          IF history[o].stop_called /\ @ < 2 THEN @ + 1 ELSE @]
        /\ UNCHANGED <<devices, manager_running, caller>>

\* run, lines 303-308: after time.sleep(10), consecutive_failures = 0
run_303(o) ==
    /\ drivers[o].thread = "run:303"
    /\ drivers' = [drivers EXCEPT ![o].consecutive_failures = 0, ![o].thread = "run:284"]
    /\ UNCHANGED <<devices, manager_running, caller, history>>

\* A step of the main thread inside a method of the manager.
MainThread == start_319 \/ stop_330 \/ stop_331 \/ monitor_410 \/ monitor_416

\* No manager yet.
FleetIdle ==
    /\ devices = EmptyMap
    /\ manager_running = FALSE
    /\ drivers = <<>>
    /\ caller = IdleCaller
    /\ history = <<>>

(***************************************************************************)
(*                           Specifications                                *)
(***************************************************************************)
ServerInit ==
    /\ latest_data = EmptyMap
    /\ last_seen = EmptyMap
    /\ shutdown_event = FALSE
    /\ timers = <<TimerPeriod>>
    /\ now = 0
    /\ resp = NoResp
    /\ refreshed = EmptyMap

SignalAtRest ==
    SignalIdle("sedan", CHOOSE st \in InitialStates("sedan") : st.throttle_base = 0)

\* The server alone.
Init ==
    /\ ServerInit
    /\ SignalAtRest
    /\ ThreadsIdle
    /\ FleetIdle

Next ==
    \/ (\E req \in Requests : receive_data(req[1], req[2])) /\ UNCHANGED notServer
    \/ (\E i \in DOMAIN timers : check_connection_status(i)) /\ UNCHANGED notServer
    \/ get_latest_data /\ UNCHANGED notServer
    \/ get_status /\ UNCHANGED notServer
    \/ remove_disconnected /\ UNCHANGED notServer
    \/ remove_all /\ UNCHANGED notServer
    \/ signal_handler /\ UNCHANGED notServer
    \/ Advance /\ UNCHANGED notServer

Spec == Init /\ [][Next]_vars

\* One ECU generating samples.
SignalInit ==
    /\ ServerInit
    /\ \E vt \in VehicleType : \E st \in InitialStates(vt) : SignalIdle(vt, st)
    /\ ThreadsIdle
    /\ FleetIdle

SignalNext == generate_realistic_data /\ UNCHANGED notSignal

SignalSpec == SignalInit /\ [][SignalNext]_vars

\* The server with its handlers interleaved statement by statement.
ThreadInit ==
    /\ ServerInit
    /\ SignalAtRest
    /\ ThreadsIdle
    /\ FleetIdle

ThreadNext ==
    \/ \E w \in Workers :
          \/ \E data \in ThreadPayloads : receive_data_92(w, data) /\ UNCHANGED notThreads
          \/ receive_data_108(w) /\ UNCHANGED notThreads
          \/ receive_data_139(w) /\ UNCHANGED notThreads
          \/ get_latest_data_151(w) /\ UNCHANGED notThreads
          \/ get_latest_data_154(w) /\ UNCHANGED notThreads
          \/ get_latest_data_156(w) /\ UNCHANGED notThreads
          \/ get_latest_data_157(w) /\ UNCHANGED notThreads
          \/ get_latest_data_158(w) /\ UNCHANGED notThreads
          \/ get_latest_data_161(w) /\ UNCHANGED notThreads
          \/ get_latest_data_166(w) /\ UNCHANGED notThreads
          \/ remove_disconnected_64(w) /\ UNCHANGED notThreads
          \/ remove_disconnected_67(w) /\ UNCHANGED notThreads
          \/ remove_disconnected_69(w) /\ UNCHANGED notThreads
          \/ remove_disconnected_74(w) /\ UNCHANGED notThreads
          \/ remove_disconnected_76(w) /\ UNCHANGED notThreads
          \/ remove_disconnected_77(w) /\ UNCHANGED notThreads
          \/ remove_disconnected_78(w) /\ UNCHANGED notThreads
          \/ remove_all_221(w) /\ UNCHANGED notThreads
          \/ remove_all_224(w) /\ UNCHANGED notThreads
          \/ remove_all_225(w) /\ UNCHANGED notThreads
    \/ sweep_25 /\ UNCHANGED notThreads
    \/ sweep_29 /\ UNCHANGED notThreads
    \/ sweep_31 /\ UNCHANGED notThreads
    \/ sweep_34 /\ UNCHANGED notThreads
    \/ sweep_35 /\ UNCHANGED notThreads
    \/ sweep_36 /\ UNCHANGED notThreads
    \/ sweep_44 /\ UNCHANGED notThreads
    \/ sweep_45 /\ UNCHANGED notThreads
    \/ Tick /\ UNCHANGED notThreads

ThreadSpec == ThreadInit /\ [][ThreadNext]_vars

\* The server shutting down: Ctrl+C while the sweep runs, with ingests and
\* removals of every record going on.  The Timer thread is not a daemon:
\* the process ends after it.
SweeperInit == ThreadInit

\* After the event is set the clock goes on to the expiry of the pending
\* Timer.
TimerExpires ==
    /\ shutdown_event
    /\ \E i \in DOMAIN timers : timers[i] > now /\ now' = timers[i]
    /\ UNCHANGED <<latest_data, last_seen, shutdown_event, timers, resp, refreshed, threadVars>>

\* A step of the Timer thread, the wait for its expiry included.
SweeperThread ==
    sweep_25 \/ sweep_29 \/ sweep_31 \/ sweep_34 \/ sweep_35 \/ sweep_36 \/ sweep_44 \/ sweep_45
    \/ TimerExpires

SweeperNext ==
    \/ \E w \in Workers :
          \/ \E data \in ThreadPayloads : receive_data_92(w, data) /\ UNCHANGED notThreads
          \/ receive_data_108(w) /\ UNCHANGED notThreads
          \/ receive_data_139(w) /\ UNCHANGED notThreads
          \/ remove_all_221(w) /\ UNCHANGED notThreads
          \/ remove_all_224(w) /\ UNCHANGED notThreads
          \/ remove_all_225(w) /\ UNCHANGED notThreads
    \/ sweep_25 /\ UNCHANGED notThreads
    \/ sweep_29 /\ UNCHANGED notThreads
    \/ sweep_31 /\ UNCHANGED notThreads
    \/ sweep_34 /\ UNCHANGED notThreads
    \/ sweep_35 /\ UNCHANGED notThreads
    \/ sweep_36 /\ UNCHANGED notThreads
    \/ sweep_44 /\ UNCHANGED notThreads
    \/ sweep_45 /\ UNCHANGED notThreads
    \/ Tick /\ UNCHANGED notThreads
    \/ signal_handler /\ UNCHANGED <<threadVars, notThreads>>
    \/ TimerExpires /\ UNCHANGED notThreads

SweeperSpec ==
    SweeperInit /\ [][SweeperNext]_vars /\ WF_vars(SweeperThread /\ UNCHANGED notThreads)

\* The fleet manager, its main thread and the threads of the devices.
FleetInit ==
    /\ ServerInit
    /\ SignalAtRest
    /\ ThreadsIdle
    /\ FleetIdle

FleetNext ==
    \/ \E n \in NumDevices : main_514(n) /\ UNCHANGED notFleet
    \/ \E n \in NumDevices : create_devices(n) /\ UNCHANGED notFleet
    \/ start_all_381 /\ UNCHANGED notFleet
    \/ start_319 /\ UNCHANGED notFleet
    \/ stop_all_388 /\ UNCHANGED notFleet
    \/ stop_330 /\ UNCHANGED notFleet
    \/ stop_331 /\ UNCHANGED notFleet
    \/ \E duration \in Durations : monitor_407(duration) /\ UNCHANGED notFleet
    \/ monitor_410 /\ UNCHANGED notFleet
    \/ monitor_416 /\ UNCHANGED notFleet
    \/ KeyboardInterrupt /\ UNCHANGED notFleet
    \/ \E o \in DOMAIN drivers : run_278(o) /\ UNCHANGED notFleet
    \/ \E o \in DOMAIN drivers : run_284(o) /\ UNCHANGED notFleet
    \/ \E o \in DOMAIN drivers, outcome \in SendOutcomes : run_286(o, outcome) /\ UNCHANGED notFleet
    \/ \E o \in DOMAIN drivers : run_303(o) /\ UNCHANGED notFleet

\* The main thread goes on running: time.sleep returns, and so does join,
\* which has a timeout.
FleetSpec ==
    FleetInit /\ [][FleetNext]_vars /\ WF_vars(MainThread /\ UNCHANGED notFleet)

(***************************************************************************)
(*                              Claims                                     *)
(***************************************************************************)
KeysMessage == "Missing one of the required keys"

OptionalKeys == {"voltage", "gear", "fuel_level"}

\* The step is a successful receive_data on the JSON body data.
IngestStep(data) ==
    /\ GetDeviceId(data) = resp'.device
    /\ MissingKeys(data) = {}
    /\ receive_data(TRUE, data)

\* C1: a rejected ingest (no JSON, device_id absent or empty, or a required
\* key absent) leaves latest_data and last_seen as they were.
C1_RejectedIngestLeavesStore ==
    [][(resp'.op = "data" /\ resp'.status = 400)
        => (latest_data' = latest_data /\ last_seen' = last_seen)]_vars

\* A payload that lacks required keys has been rejected while both devices,
\* so the one it names too, are stored.
C1_Witness ==
    /\ resp.op = "data"
    /\ resp.status = 400
    /\ resp.message = KeysMessage
    /\ DOMAIN latest_data = DeviceIds
    /\ DOMAIN last_seen = DeviceIds

\* The last response is the handler's answer to the JSON body data, which
\* has a device_id and lacks some required keys.
RejectedForKeys(data) ==
    /\ ~Falsy(GetDeviceId(data))
    /\ MissingKeys(data) # {}
    /\ resp = IngestResponse(TRUE, data)

\* C2 as stated: the rejection of a payload that has a device_id and lacks
\* the required keys M names exactly the keys in M.
C2_NamesExactlyMissing ==
    (resp.op = "data" /\ resp.message = KeysMessage)
        => \A data \in Payloads : RejectedForKeys(data) => resp.named = MissingKeys(data)

\* C2 amended: the rejection names all four required keys, whichever of them
\* are missing; every missing key is among them.
C2_NamesAllRequired ==
    (resp.op = "data" /\ resp.message = KeysMessage)
        => \A data \in Payloads :
             RejectedForKeys(data)
               => /\ MissingKeys(data) \subseteq resp.named
                  /\ resp.named = {"rpm", "speed", "temp_motor", "throttle_pos"}

\* A rejection for missing keys is the response, with a device stored.
C2_Witness ==
    /\ resp.op = "data"
    /\ resp.status = 400
    /\ resp.message = KeysMessage
    /\ resp.named # {}
    /\ latest_data # EmptyMap

\* C3: after a successful ingest the record of the device is determined by
\* the payload alone: required fields as sent, optional fields as sent or
\* 13.5 / 0 / 50.0, every other payload field as sent, and no field that
\* only an earlier record had.
C3_RecordFromPayloadAlone ==
    [][(resp'.op = "data" /\ resp'.status = 200)
        => \A data \in Payloads :
             IngestStep(data) =>
               LET rec == latest_data'[GetDeviceId(data)]
                   extras == DOMAIN data \ ({"device_id"} \cup RequiredSet \cup OptionalKeys)
               IN  /\ \A k \in RequiredSet : rec[k] = data[k]
                   /\ rec["voltage"] = IF "voltage" \in DOMAIN data THEN data["voltage"] ELSE 135
                   /\ rec["gear"] = IF "gear" \in DOMAIN data THEN data["gear"] ELSE 0
                   /\ rec["fuel_level"] =
                        IF "fuel_level" \in DOMAIN data THEN data["fuel_level"] ELSE 500
                   /\ \A k \in extras : k \in DOMAIN rec /\ rec[k] = data[k]
                   /\ DOMAIN rec =
                        RequiredSet \cup OptionalKeys \cup extras
                        \cup {"timestamp", "connection_status", "last_seen_seconds",
                              "was_connected"}]_vars

\* Device A, whose earlier record had the extra field lat, now holds the
\* record of a payload without it.
C3_Witness ==
    /\ resp.op = "data"
    /\ resp.status = 200
    /\ resp.device = "A"
    /\ "lat" \notin DOMAIN latest_data["A"]
    /\ latest_data["A"]["rpm"] = 3000
    /\ last_seen["A"] > 0

\* C4 as stated: right after a successful ingest the record is connected,
\* last_seen_seconds is 0, was_connected is true and the arrival time is the
\* time of the ingest, whatever else the payload carries.
C4_FreshRecordIsConnected ==
    (resp.op = "data" /\ resp.status = 200)
        => /\ latest_data[resp.device]["connection_status"] = "connected"
           /\ latest_data[resp.device]["last_seen_seconds"] = 0
           /\ latest_data[resp.device]["was_connected"] = TRUE
           /\ last_seen[resp.device] = now

\* The status the specification gives an elapsed time, in centiseconds.
Classified(elapsed) == IF elapsed < 1500 THEN "connected" ELSE "disconnected"

\* C5: the sweep, the full read and the status query each report a device
\* connected exactly when now - last_seen < 15 s, so the three agree; 5 s is
\* connected, 20 s and exactly 15 s are disconnected.
C5_SamePureClassification ==
    /\ \A e \in {500, 1500, 2000} :
         /\ SweepStatus(e) = Classified(e)
         /\ ReadStatus(e) = Classified(e)
         /\ StatusConnected(e) = (Classified(e) = "connected")
    /\ resp.op = "sweep"
         => \A d \in DOMAIN latest_data \cap DOMAIN last_seen :
              latest_data[d]["connection_status"] = Classified(now - last_seen[d])
    /\ resp.op = "latest"
         => \A d \in DOMAIN resp.data \cap DOMAIN last_seen :
              resp.data[d]["connection_status"] = Classified(now - last_seen[d])
    /\ resp.op = "status"
         => \A d \in DOMAIN resp.report \cap DOMAIN last_seen :
              resp.report[d].connected = (Classified(now - last_seen[d]) = "connected")

\* The status query has answered for a device seen exactly 15 s ago and one
\* seen less than 15 s ago.
C5_Witness ==
    /\ resp.op = "status"
    /\ \E d \in DOMAIN resp.report : now - last_seen[d] = 1500 /\ ~resp.report[d].connected
    /\ \E d \in DOMAIN resp.report : now - last_seen[d] < 1500 /\ resp.report[d].connected

\* C6 as stated: once a device has been silent for more than 60 s and a
\* sweep has run, was_connected is true, whatever payload made the record.
C6_StickyAfterSilence ==
    resp.op = "sweep"
        => \A d \in DOMAIN latest_data \cap DOMAIN last_seen :
             now - last_seen[d] > 6000 => latest_data[d]["was_connected"] = TRUE

\* C7: removeDisconnected deletes the record and the arrival time of exactly
\* the devices with now - last_seen > 15 s, returns their ids, and leaves
\* every other device as it was.
C7_RemovesExactlyTimedOut ==
    [][resp'.op = "remove_disconnected"
        => LET gone == {d \in DOMAIN last_seen : now - last_seen[d] > 1500}
           IN  /\ resp'.removed = gone
               /\ DOMAIN latest_data' = DOMAIN latest_data \ gone
               /\ DOMAIN last_seen' = DOMAIN last_seen \ gone
               /\ \A d \in DOMAIN latest_data \ gone : latest_data'[d] = latest_data[d]
               /\ \A d \in DOMAIN last_seen \ gone : last_seen'[d] = last_seen[d]]_vars

\* A was evicted; B, seen exactly 15 s ago, was kept.
C7_Witness ==
    /\ resp.op = "remove_disconnected"
    /\ resp.removed = {"A"}
    /\ DOMAIN latest_data = {"B"}
    /\ DOMAIN last_seen = {"B"}
    /\ now - last_seen["B"] = 1500

\* C8: removeAll leaves latest_data and last_seen empty and reports the
\* number of records stored right before the call.
C8_RemoveAllClearsAndCounts ==
    [][resp'.op = "remove_all"
        => /\ DOMAIN latest_data' = {}
           /\ DOMAIN last_seen' = {}
           /\ resp'.count = Cardinality(DOMAIN latest_data)]_vars

\* removeAll has cleared a store of two records.
C8_Witness ==
    /\ resp.op = "remove_all"
    /\ resp.count = 2
    /\ DOMAIN latest_data = {}
    /\ DOMAIN last_seen = {}

\* C9: right after a sweep, another sweep at the same instant leaves every
\* record as it is.
C9_SweepIdempotent ==
    resp.op = "sweep" => SweepAll(latest_data, last_seen, now) = latest_data

\* A sweep has visited a record more than 60 s old and one under the timeout.
C9_Witness ==
    /\ resp.op = "sweep"
    /\ \E d \in DOMAIN latest_data : now - last_seen[d] > 6000
    /\ \E d \in DOMAIN latest_data : now - last_seen[d] < 1500 /\ now - last_seen[d] > 0

\* The derived fields of d are written again, at a later time than the last
\* sweep or read did, with no ingest for d in between.
RefreshedLater(d) ==
    /\ d \in DOMAIN refreshed
    /\ d \in DOMAIN refreshed'
    /\ refreshed'[d] > refreshed[d]

\* C10 as stated: with no new ingest, successive sweeps or reads at strictly
\* increasing times write a strictly increasing last_seen_seconds, and the
\* status never goes back from disconnected to connected.
C10_StrictlyIncreasing ==
    [][\A d \in DeviceIds :
         RefreshedLater(d)
           => /\ latest_data'[d]["last_seen_seconds"] > latest_data[d]["last_seen_seconds"]
              /\ latest_data[d]["connection_status"] = "disconnected"
                   => latest_data'[d]["connection_status"] = "disconnected"]_vars

\* C10 amended: last_seen_seconds never decreases, and increases strictly
\* when the two times are at least 0.1 s apart; the status never goes back
\* from disconnected to connected.
C10_NonDecreasing ==
    [][\A d \in DeviceIds :
         RefreshedLater(d)
           => /\ latest_data'[d]["last_seen_seconds"] >= latest_data[d]["last_seen_seconds"]
              /\ refreshed'[d] - refreshed[d] >= 10
                   => latest_data'[d]["last_seen_seconds"] > latest_data[d]["last_seen_seconds"]
              /\ latest_data[d]["connection_status"] = "disconnected"
                   => latest_data'[d]["connection_status"] = "disconnected"]_vars

\* A device ingested at 0 s has been refreshed at 15.04 s, after 15.00 s:
\* last_seen_seconds is 15.0 both times.
C10_Witness ==
    \E d \in DOMAIN refreshed :
        /\ last_seen[d] = 0
        /\ refreshed[d] = 1504
        /\ now = 1504
        /\ latest_data[d]["last_seen_seconds"] = 150
        /\ latest_data[d]["connection_status"] = "disconnected"


\* C11: every sample the signal model emits, for every vehicle type, every
\* initial state and every draw, has rpm within the rpm range of the type,
\* speed between 0 and its maximum speed, temp_motor between its minimum
\* temperature and its maximum plus 10, throttle_pos between 0 and 100 and
\* voltage between 11.5 and 14.5.
C11_SampleWithinLimits ==
    ticks > 0 =>
        LET config == get_vehicle_config(vehicle_type)
        IN  /\ config.rpm_range[1] <= ecu_data.rpm
            /\ ecu_data.rpm <= config.rpm_range[2]
            /\ 0 <= ecu_data.speed
            /\ ecu_data.speed <= config.speed_range[2] * 10
            /\ config.temp_range[1] * 10 <= ecu_data.temp_motor
            /\ ecu_data.temp_motor <= (config.temp_range[2] + 10) * 10
            /\ 0 <= ecu_data.throttle_pos
            /\ ecu_data.throttle_pos <= 1000
            /\ 1150 <= ecu_data.voltage
            /\ ecu_data.voltage <= 1450

\* A sedan sample held at the upper limits of rpm and speed (3500, 120.0).
C11_Witness ==
    /\ ticks > 0
    /\ vehicle_type = "sedan"
    /\ ecu_data.rpm = 3500
    /\ ecu_data.speed = 1200


\* The part of the store that belongs to device e: its record and its
\* arrival time, each absent or present.
Entry(ld, ls, e) ==
    <<IF e \in DOMAIN ld THEN <<ld[e]>> ELSE <<>>, IF e \in DOMAIN ls THEN <<ls[e]>> ELSE <<>>>>

\* C12: with two valid ingests for distinct devices interleaved statement by
\* statement, no statement of the ingest for one device changes the record
\* or the arrival time of another device, the ingest that returns leaves its
\* own record stored, and a full read returns the whole mapping: both
\* records are in a read that follows.
C12_IngestsDoNotInterfere ==
    [][\A w \in Workers :
          /\ (receive_data_108(w) \/ receive_data_139(w)) =>
                \A e \in DeviceIds \ {frame[w].device_id} :
                    Entry(latest_data', last_seen', e) = Entry(latest_data, last_seen, e)
          /\ receive_data_139(w) =>
                /\ frame[w].device_id \in DOMAIN latest_data'
                /\ \A v \in Workers \ {w} :
                      (out[v].op = "data" /\ out[v].status = 200
                         /\ out[v].device \in DOMAIN latest_data)
                      => out[v].device \in DOMAIN latest_data'
          /\ get_latest_data_166(w) => out'[w].data = latest_data]_vars

\* The only two requests served are ingests for A and for B, the second
\* taken while the first was in progress; both have returned and both
\* records are stored.
C12_Witness ==
    /\ served = 2
    /\ \A w \in Workers : pc[w] = "idle" /\ out[w].op = "data" /\ out[w].status = 200
    /\ out["w1"].device # out["w2"].device
    /\ DOMAIN latest_data = DeviceIds
    /\ DOMAIN last_seen = DeviceIds


\* C13 as claimed: create_devices called with fewer than one device fails
\* with a configuration error; it never returns an empty list of ids as if
\* it had succeeded.
C13_EmptyCreateFails ==
    (caller.result.op = "create_devices" /\ caller.result.device_ids = <<>>)
        => caller.result.error

\* C13 as the code has it: main refuses fewer than one device with an error
\* before any manager exists, and registers nothing; create_devices itself,
\* called with fewer than one, raises nothing, registers no driver and
\* returns the empty list.
C13_MainRefusesCreateReturnsEmpty ==
    /\ [](caller.result.op = "main" =>
            /\ caller.result.error
            /\ caller.pc = "returned"
            /\ devices = EmptyMap
            /\ drivers = <<>>)
    /\ [][\A n \in NumDevices :
            (n < 1 /\ create_devices(n)) =>
                /\ devices' = devices
                /\ drivers' = drivers
                /\ caller'.result.device_ids = <<>>
                /\ ~caller'.result.error]_vars

\* create_devices has returned the empty list, without an error, to a
\* manager that has a device registered.
C13_Witness ==
    /\ caller.result.op = "create_devices"
    /\ caller.result.device_ids = <<>>
    /\ ~caller.result.error
    /\ DOMAIN devices = {"Truck_001"}


\* C14 as claimed: once stop() has been called on a started driver, its
\* running flag is false from then on and its loop sends at most one
\* further sample, whatever the interleaving of start and stop.
C14_StopIsEffective ==
    \A o \in DOMAIN drivers :
        history[o].stop_called =>
            /\ ~drivers[o].running
            /\ history[o].late_sends <= 1

\* A duration was requested: main reports a duration of 0 as indefinite, as
\* it does None (line 537), and monitor tests it the same way (line 411).
Requested(duration) == duration # <<>> /\ duration[1] # 0

\* The step is the return of monitor.
MonitorReturns ==
    /\ caller.monitoring
    /\ caller'.pc = "idle"

C20_FailureCounter ==
    /\ [](\A o \in DOMAIN drivers :
            drivers[o].thread \in {"run:284", "run:286"}
                => drivers[o].consecutive_failures \in 0..4)
    /\ [][\A o \in DOMAIN drivers :
            /\ \A outcome \in SendOutcomes :
                  run_286(o, outcome) =>
                      /\ drivers'[o].consecutive_failures =
                            IF outcome = "200" THEN 0
                            ELSE drivers[o].consecutive_failures + 1
                      /\ drivers'[o].thread = "run:303"
                            <=> drivers'[o].consecutive_failures = 5
            /\ run_303(o) =>
                  /\ drivers'[o].consecutive_failures = 0
                  /\ drivers'[o].thread = "run:284"]_vars

\* A driver pauses after its fifth failed send in a row.
C20_Witness ==
    \E o \in DOMAIN drivers :
        /\ drivers[o].thread = "run:303"
        /\ drivers[o].consecutive_failures = 5


\* connection_status and last_seen_seconds of rec are those one update
\* writes: the classification and the rounding of one elapsed time.
FromOneUpdate(rec) ==
    \E t \in ThreadInstants, u \in ThreadInstants :
        /\ u <= t
        /\ rec["connection_status"] = Classified(t - u)
        /\ rec["last_seen_seconds"] = Round1(t - u)

\* Thread w is inside a full read.
Reading(w) ==
    pc[w] \in {"latest:154", "latest:156", "latest:157", "latest:158", "latest:161",
               "latest:166"}

\* C16 as claimed: with an ingest, a sweep and one full read interleaved
\* statement by statement, the read never returns a record whose
\* connection_status and last_seen_seconds come from different updates (a
\* record observed part-way through an update, as a read in the middle of
\* a sweep finds it).
C16_NoTornRecord ==
    \A w \in Workers :
        (/\ out[w].op = "latest"
         /\ out[w].status = 200
         /\ \A v \in Workers \ {w} : ~Reading(v) /\ out[v].op # "latest")
            => \A d \in DOMAIN out[w].data : FromOneUpdate(out[w].data[d])

\* C17 as claimed: a sweep or a removeDisconnected that runs along with a
\* removeAll or removeDisconnected never faults: when a record or an
\* arrival time vanishes between the test of its presence and its use, the
\* device is skipped and the operation completes normally.
C17_VanishedKeyIsSkipped ==
    /\ pc[Sweeper] # "crashed"
    /\ \A w \in Workers : ~(out[w].op = "remove_disconnected" /\ out[w].status = 500)

\* C18 as claimed, for the records a sweep or a full read has written since
\* their last ingest: in every reachable state, the time between two sweeps
\* included, the stored connection_status is "connected" exactly when
\* now - last_seen < 15 s.
C18_StatusNeverStale ==
    \A d \in DOMAIN refreshed \cap DOMAIN latest_data \cap DOMAIN last_seen :
        latest_data[d]["connection_status"] = Classified(now - last_seen[d])

\* The optional fields of rec.
Optional(rec) == [k \in OptionalKeys |-> rec[k]]

\* C19: every stored record has voltage, gear and fuel_level in every
\* reachable state; so the read-time backfill (0.0 / 0 / 0.0) changes no
\* record, and the record of a payload without optional fields is stored
\* with 13.5 / 0 / 50.0 and keeps them through every sweep and read, which
\* returns them.
C19_OptionalFieldsPopulated ==
    /\ [](\A d \in DOMAIN latest_data :
            /\ OptionalKeys \subseteq DOMAIN latest_data[d]
            /\ FillMissing(latest_data[d], read_defaults) = latest_data[d])
    /\ [][(resp'.op = "data" /\ resp'.status = 200)
            => \A data \in Payloads :
                 (IngestStep(data) /\ DOMAIN data \cap OptionalKeys = {})
                     => Optional(latest_data'[GetDeviceId(data)]) = default_fields]_vars
    /\ [][resp'.op # "data"
            => \A d \in DOMAIN latest_data \cap DOMAIN latest_data' :
                 Optional(latest_data'[d]) = Optional(latest_data[d])]_vars
    /\ [](resp.op = "latest"
            => \A d \in DOMAIN resp.data :
                 /\ d \in DOMAIN latest_data
                 /\ OptionalKeys \subseteq DOMAIN resp.data[d]
                 /\ Optional(resp.data[d]) = Optional(latest_data[d]))

\* A full read has returned device A, ingested without optional fields, with
\* 13.5 / 0 / 50.0.
C19_Witness ==
    /\ resp.op = "latest"
    /\ resp.status = 200
    /\ "A" \in DOMAIN resp.data
    /\ resp.data["A"]["rpm"] = Body1["rpm"]
    /\ "lat" \notin DOMAIN resp.data["A"]
    /\ Optional(resp.data["A"]) = default_fields

\* C21: no result of a send ends the loop of a driver or reaches the
\* manager: after a send of any outcome the thread goes on to the next test
\* of its flag (after the pause, at the fifth failure in a row) and the
\* main thread and the manager are untouched; a test that finds the flag
\* set starts the next iteration; and a thread exits only from a test that
\* finds the flag false, after stop has cleared it.
C21_SendNeverEndsLoop ==
    [][\A o \in DOMAIN drivers :
          /\ \A outcome \in SendOutcomes :
                run_286(o, outcome)
                    => /\ drivers'[o].thread \in {"run:284", "run:303"}
                       /\ drivers'[o].running = drivers[o].running
                       /\ caller' = caller
                       /\ manager_running' = manager_running
          /\ run_303(o) => drivers'[o].thread = "run:284"
          /\ (run_284(o) /\ drivers[o].running) => drivers'[o].thread = "run:286"
          /\ (drivers[o].thread # "exited" /\ drivers'[o].thread = "exited")
                => /\ drivers[o].thread = "run:284"
                   /\ ~drivers[o].running
                   /\ history[o].stop_called]_vars

\* A driver whose last four sends failed is about to send again, its flag
\* set.
C21_Witness ==
    \E o \in DOMAIN drivers :
        /\ drivers[o].thread = "run:286"
        /\ drivers[o].running
        /\ drivers[o].consecutive_failures = 4

\* The fields the server derives from the arrival time.
DerivedKeys == {"connection_status", "last_seen_seconds", "was_connected"}

\* C22: a sweep, a full read and a status query leave last_seen as it was,
\* create and delete no record, and change no field of a record other than
\* connection_status, last_seen_seconds and was_connected; a record
\* disappears only in a removeDisconnected or a removeAll.
C22_OnlyDerivedFieldsChange ==
    /\ [][resp'.op \in {"sweep", "sweep_skipped", "latest", "status"}
            => /\ last_seen' = last_seen
               /\ DOMAIN latest_data' = DOMAIN latest_data
               /\ \A d \in DOMAIN latest_data :
                    /\ DOMAIN latest_data'[d] \ DerivedKeys = DOMAIN latest_data[d] \ DerivedKeys
                    /\ \A k \in DOMAIN latest_data[d] \ DerivedKeys :
                         latest_data'[d][k] = latest_data[d][k]]_vars
    /\ [][DOMAIN latest_data \ DOMAIN latest_data' # {}
            => resp'.op \in {"remove_disconnected", "remove_all"}]_vars

\* A sweep has marked device A disconnected and left its payload fields
\* voltage 14.1 and lat as they were.
C22_Witness ==
    /\ resp.op = "sweep"
    /\ "A" \in DOMAIN latest_data
    /\ latest_data["A"]["connection_status"] = "disconnected"
    /\ latest_data["A"]["last_seen_seconds"] > 0
    /\ latest_data["A"]["voltage"] = 141
    /\ "lat" \in DOMAIN latest_data["A"]

\* C23: from one generation tick of a device to the next, for every vehicle
\* type and every draw, the fuel level of the state and the fuel_level of
\* the sample do not increase, and they are never below 0.
C23_FuelNeverIncreases ==
    /\ [](state.fuel_level >= 0 /\ ecu_data.fuel_level >= 0)
    /\ [][ticks' = ticks + 1
            => /\ state'.fuel_level <= state.fuel_level
               /\ ecu_data'.fuel_level <= Sample(state).fuel_level
               /\ ticks > 0 => ecu_data'.fuel_level <= ecu_data.fuel_level]_vars

\* After two ticks the tank, nearly empty at the start, is at the floor.
C23_Witness ==
    /\ ticks = 2
    /\ state.fuel_level = 0
    /\ ecu_data.fuel_level = 0

\* C24 as claimed: the gear of a sample is the step of the speed of the
\* state at the thresholds 20 / 40 / 60 / 80 / 100 / 120 km/h, 7 only for
\* the sport type at 120 km/h or more, and never above max_gear of the
\* vehicle type.
C24_GearWithinMaxGear ==
    ticks > 0 =>
        /\ ecu_data.gear = GearOf(vehicle_type, state.speed_base)
        /\ ecu_data.gear = 7 => vehicle_type = "sport" /\ state.speed_base >= 12000
        /\ ecu_data.gear <= get_vehicle_config(vehicle_type).max_gear

\* C25: at most one Timer of the sweep is pending; an invocation of the
\* sweep that begins with the shutdown event set changes no record and
\* starts no Timer; once the event is set and no Timer is pending and no
\* sweep is running, it stays so; and after the event is set there is
\* eventually no pending Timer and no running sweep.
C25_SweeperEndsWithShutdown ==
    /\ [](Len(timers) <= 1)
    /\ [][(shutdown_event /\ sweep_25)
            => /\ latest_data' = latest_data
               /\ timers' = <<>>
               /\ pc'[Sweeper] = "idle"]_vars
    /\ [][(shutdown_event /\ timers = <<>> /\ pc[Sweeper] \in {"idle", "crashed"})
            => (timers' = <<>> /\ pc'[Sweeper] = pc[Sweeper])]_vars
    /\ shutdown_event ~> (timers = <<>> /\ pc[Sweeper] \in {"idle", "crashed"})

\* The event was set with the Timer started by a sweep at 16 s pending; the
\* Timer expired at 17 s, its invocation has returned and no Timer is left,
\* with a record stored.
C25_Witness ==
    /\ shutdown_event
    /\ now = Seconds(17)
    /\ timers = <<>>
    /\ pc[Sweeper] = "idle"
    /\ latest_data # EmptyMap

\* The devices a sweep at time t would mark disconnected.
MarkedDisconnected(ld, ls, t) ==
    {d \in DOMAIN ld \cap DOMAIN ls : SweepAll(ld, ls, t)[d]["connection_status"] = "disconnected"}

C27_RecordsHaveArrivalTimes ==
    (\A th \in Threads : pc[th] \in {"idle", "crashed"})
        => DOMAIN latest_data = DOMAIN last_seen

\* C28 as claimed: with an ingest for the same device interleaved statement
\* by statement, every record removeDisconnected deletes belongs to a device
\* whose arrival time is more than 15 s old at the moment of the deletion.
C28_DeletesOnlyStaleRecords ==
    [][\A w \in Workers :
          (remove_disconnected_76(w) /\ latest_data' # latest_data)
              => LET d == frame[w].device_id
                 IN  /\ d \in DOMAIN last_seen
                     /\ now - last_seen[d] > Seconds(CONNECTION_TIMEOUT)]_vars

\* C29 as claimed: after any sequence of create, startAll and stopAll, a
\* second create after startAll included, every driver that was started has
\* an entry in the manager's devices (and so in get_status), and a stopAll
\* that has returned has called stop on every one of them.
C29_StartedDriversAreTracked ==
    /\ \A o \in DOMAIN drivers :
          drivers[o].thread # "none" => \E id \in DOMAIN devices : devices[id] = o
    /\ (caller.pc = "idle" /\ caller.result.op = "stop_all")
          => \A o \in DOMAIN drivers : drivers[o].thread # "none" => history[o].stop_called

=============================================================================
